---- MODULE Spec2Model ----
(***************************************************************************)
(* State-machine model of route_intent (intent_router.py): the dispatcher  *)
(* that executes a batch of action steps against the Gmail, Calendar and   *)
(* Drive clients, threading the list of last-returned items (last_items)   *)
(* from one step to the next, and the process-wide folder_map cache.       *)
(*                                                                         *)
(* Strings that the code inspects (ids, names, queries) are sequences of   *)
(* character codes, so that startswith("{{") and lower() are computed.     *)
(* A parameter mapping is a function whose DOMAIN is the set of keys       *)
(* present, like the Python dict it models.                                *)
(*                                                                         *)
(* One action models one whole pass through the body of the for loop for   *)
(* one action step, the except clause included.  The step that the loop    *)
(* reaches is drawn when the loop reaches it: the code reads actions[i]    *)
(* only at iteration i.  Every backend call may raise; a handler's run is  *)
(* the sequence of backend calls it made up to and including the one that  *)
(* raised.                                                                 *)
(***************************************************************************)
EXTENDS Integers, Sequences, FiniteSets, TLC

\* ------------------------------------------------------------------ bounds
MaxMsgs == 2      \* messages the mail server can return
MaxSteps == 2     \* longest batch (len(intent["actions"]))
MaxLabels == 1    \* labels the mailbox can hold
MaxFolders == 2   \* folder ids the drive can hand out

\* ------------------------------------------------------------- characters
LBRACE == 123     \* "{", the character of the placeholder marker "{{"
UpperA == 65
UpperZ == 90
CaseGap == 32     \* ord("a") - ord("A")

\* ------------------------------------------------------ defaults of the code
ListDefault == 5          \* n = int(count) if count else 5
ReadDefault == 1          \* count or 1
ByLabelDefault == 10      \* int(params.get("count", 10))
SummarizeDefault == 3     \* n = count or 3
CalListDefault == 5       \* int(params.get("count", 5))

\* ------------------------------------------------------------ string values
Empty == <<>>
MsgId(k) == <<109, 48 + k>>                       \* "m1", "m2", ...
MsgIds == {MsgId(k) : k \in 1..MaxMsgs}
Placeholder == <<LBRACE, LBRACE, 105, 100, 125, 125>>   \* "{{id}}"
SomeQuery == <<113>>                              \* "q"
UNREAD == <<85, 78, 82, 69, 65, 68>>              \* "UNREAD"

\* str.startswith(prefix)
StartsWith(s, prefix) ==
    /\ Len(s) >= Len(prefix)
    /\ SubSeq(s, 1, Len(prefix)) = prefix

\* str(v).startswith("{{")
IsPlaceholder(s) == StartsWith(s, <<LBRACE, LBRACE>>)

\* str.lower() on one character and on a string
LowerChar(c) == IF c >= UpperA /\ c <= UpperZ THEN c + CaseGap ELSE c
Lower(s) == [k \in 1..Len(s) |-> LowerChar(s[k])]

\* ----------------------------------------------------------- dict helpers
Opt(k, V) == {<<>>} \cup {k :> v : v \in V}
Has(params, k) == k \in DOMAIN params
\* params.get(k) is truthy, for a string or list value / for an int value
Truthy(params, k) == Has(params, k) /\ params[k] # <<>>
TruthyInt(params, k) == Has(params, k) /\ params[k] # 0

Min(a, b) == IF a < b THEN a ELSE b

\* the injective sequences over S of length at most n: what a list call of
\* the server can return for maxResults = n
RECURSIVE InjSeqs(_, _)
InjSeqs(S, n) ==
    IF n <= 0 \/ S = {} THEN {<<>>}
    ELSE {<<>>} \cup UNION {{<<x>> \o t : t \in InjSeqs(S \ {x}, n - 1)} : x \in S}

\* [i["id"] for i in last_items]
get_ids(items) == [k \in 1..Len(items) |-> items[k].id]

\* [{"id": m["id"], ...} for m in msgs]: subject and from are display-only
Items(ids) == [k \in 1..Len(ids) |-> [id |-> ids[k]]]

\* items[:n]
Take(s, n) == SubSeq(s, 1, Min(n, Len(s)))

\* ------------------------------------------------------------ backend calls
\* A call is what was sent and, for a list call that returned, the ids it
\* returned (ret).
Call(op, id, arg) ==
    [op |-> op, id |-> id, arg |-> arg, add |-> <<>>, remove |-> <<>>, ret |-> <<>>]
Returning(call, ids) == [call EXCEPT !.ret = ids]
\* es.modify_labels: users().messages().modify(id, addLabelIds, removeLabelIds)
Modify(id, add, remove) ==
    [op |-> "messages.modify", id |-> id, arg |-> <<>>, add |-> add, remove |-> remove,
     ret |-> <<>>]

\* the call sent once per element of ids, in order, with that element as its id
Each(ids, call) == [k \in 1..Len(ids) |-> [call EXCEPT !.id = ids[k]]]

\* The runs of a handler whose backend calls are plan, when any call may
\* raise: all of plan, or plan up to and including the call that raised.
Runs(plan) ==
    {[calls |-> plan, ok |-> TRUE]}
      \cup {[calls |-> [SubSeq(plan, 1, k) EXCEPT ![k].ret = <<>>], ok |-> FALSE] :
                k \in 1..Len(plan)}

\* label ids "L1", "L2", ... and the label names of the model
LabelId(k) == <<76, 48 + k>>
LabelIds == {LabelId(k) : k \in 1..MaxLabels}
Work == <<87, 111, 114, 107>>                     \* "Work"
work == <<119, 111, 114, 107>>                    \* "work"
Home == <<72, 111, 109, 101>>                     \* "Home"
LabelNames == {Work, Home}
\* what users().labels().list can return: the labels that exist, by
\* ascending id, each bearing one of the names
NoLabels == <<>>
RECURSIVE LabelListsFrom(_)
LabelListsFrom(k) ==
    IF k > MaxLabels THEN {<<>>}
    ELSE LET rest == LabelListsFrom(k + 1)
         IN rest \cup {<<[id |-> LabelId(k), name |-> nm]>> \o t : nm \in LabelNames, t \in rest}
LabelLists == LabelListsFrom(1)

\* folder ids "F1", "F2", ..., the folder names, and the states of the drive:
\* folder id k bears the name folders[k], or does not exist when it is Empty
FolderId(k) == <<70, 48 + k>>
FolderIds == {FolderId(k) : k \in 1..MaxFolders}
Docs == <<68, 111, 99, 115>>                      \* "Docs"
Pics == <<80, 105, 99, 115>>                      \* "Pics"
FolderNames == {Docs, Pics}
NoFolders == [k \in 1..MaxFolders |-> Empty]
FolderStates == [1..MaxFolders -> FolderNames \cup {Empty}]

Services == {"gmail", "calendar", "drive", "chat", "none"}
Routable == {"gmail", "calendar", "drive"}
ClientSets == {{}} \cup {{s} : s \in Routable}

NoStep == [idx |-> 0, act |-> "", params |-> <<>>, before |-> <<>>,
           calls |-> <<>>, result |-> "none", prints |-> <<>>]

NoDate == <<>>
NoPrev == [fresh |-> FALSE, ids |-> <<>>, failed |-> FALSE, deleted |-> <<>>,
           act |-> "", before |-> <<>>, tried |-> <<>>]
Producing == {"list", "search", "list_by_label"}

VARIABLES
    pc,          \* "idle": no dispatch call is running; "loop": at the head of the
                 \* for loop; "done": the body of the loop has ended for one item
    service,     \* intent.get("service")
    clients,     \* the keys of service_clients that hold a client
    nactions,    \* len(intent["actions"])
    i,           \* number of steps of the batch attempted so far
    last_items,  \* the execution context of the running call
    folder_map,  \* the module-level folder name -> id cache
    route,       \* what the routing stage printed: "entered", "uninit", "ERROR"
    folders,     \* the folders of the drive (backend state), seen by drive calls
    labels,      \* the label list the step just executed got from es.list_labels
    step,        \* the step just executed: what it was given, did and printed
    earlier,     \* an earlier dispatch call ended with a non-empty context
    today,       \* the date the step just executed got from datetime.now(IST)
    prev         \* the step before the one in step: whether it raised, whether it
                 \* was a list step that succeeded and the ids it then returned,
                 \* the id it deleted from the drive, if it did, and when it
                 \* is a mail step that raised on a context that held items,
                 \* its action, that context and the messages its calls were
                 \* sent for

vars == <<pc, service, clients, nactions, i, last_items, folder_map, route, folders, labels, step, earlier, today, prev>>

Init ==
    /\ pc = "idle"
    /\ service = "none"
    /\ clients = {}
    /\ nactions = 0
    /\ i = 0
    /\ last_items = <<>>
    /\ folder_map = <<>>
    /\ route = "none"
    /\ folders = NoFolders
    /\ labels = NoLabels
    /\ step = NoStep
    /\ earlier = FALSE
    /\ today = NoDate
    /\ prev = NoPrev

\* last_items: list[dict] = []   (line 27)
KeepContext(old) == old
FreshContext(old) == <<>>

\* if service == "gmail": if not gmail_svc: print(...); return   (and so for
\* the calendar and the drive; else: print("ERROR"))
RoutedWithoutClient(svc, cl) == svc \in Routable
Routed(svc, cl) == svc \in Routable /\ svc \in cl

\* route_intent up to the first iteration of a for loop, or to its return,
\* called with a batch of at most longest steps
Dispatch(longest) ==
    /\ pc = "idle"
    /\ \E svc \in Services, cl \in ClientSets, n \in 0..longest :
        /\ service' = svc
        /\ clients' = cl
        /\ last_items' = FreshContext(last_items)
        /\ earlier' = (earlier \/ last_items # <<>>)
        /\ step' = NoStep
        /\ prev' = NoPrev
        /\ i' = 0
        /\ IF Routed(svc, cl)
             THEN /\ route' = "entered"
                  /\ nactions' = n
                  /\ pc' = IF n > 0 THEN "loop" ELSE "idle"
             ELSE /\ route' = IF svc \in Routable THEN "uninit" ELSE "ERROR"
                  /\ nactions' = n
                  /\ pc' = "idle"
        /\ labels' = NoLabels
        /\ today' = NoDate
        \* the drive is shared: a drive call finds it in any state
        /\ folders' \in (IF svc = "drive" /\ Routed(svc, cl) THEN FolderStates ELSE {NoFolders})
        /\ UNCHANGED folder_map

\* for item in actions: ... try: ... except Exception: the loop goes on to the
\* next item whatever the step's result, and route_intent returns after the last
ResumeAbort(result, done, n) == IF result = "failed" \/ done = n THEN "idle" ELSE "loop"
Resume(result, done, n) == IF done = n THEN "idle" ELSE "loop"

\* the messages and recipients the calls were sent for, in order
Sent(calls) ==
    LET sel == SelectSeq(calls, LAMBDA c : c.id # Empty)
    IN [k \in 1..Len(sel) |-> sel[k].id]

RouteIntent == Dispatch(MaxSteps)
RouteLongIntent == Dispatch(MaxSteps + 1)

\* the for statement takes the next item, or the loop ends and route_intent
\* returns; the record of the step that ended is dropped
NextItem ==
    /\ pc = "done"
    /\ pc' = Resume(step.result, i, nactions)
    /\ step' = NoStep
    /\ prev' = LET fresh == step.result = "ok" /\ step.act \in Producing
                   \* a mail step that raised on a context that held items, and
                   \* is not the last of the batch
                   raised == /\ step.result = "failed" /\ service = "gmail"
                             /\ i < nactions /\ step.before # <<>>
               IN [fresh |-> fresh,
                   ids |-> IF fresh THEN step.calls[1].ret ELSE <<>>,
                   failed |-> step.result = "failed",
                   deleted |-> IF step.result = "ok" /\ step.act = "delete_file"
                                 THEN step.params["file_id"] ELSE <<>>,
                   act |-> IF raised THEN step.act ELSE "",
                   before |-> IF raised THEN step.before ELSE <<>>,
                   tried |-> IF raised THEN Sent(step.calls) ELSE <<>>]
    /\ labels' = NoLabels
    /\ today' = NoDate
    /\ UNCHANGED <<service, clients, nactions, i, last_items, folder_map, folders, route, earlier>>

\* for item in actions: the iterator moves on by one item per pass
AdvanceNot(done) == done
Advance(done) == done + 1

\* The end of one pass through the loop body: what the step did and the
\* context it leaves.
Finish(act, params, calls, result, ctx, prints) ==
    /\ step' = [idx |-> Advance(i), act |-> act, params |-> params, before |-> last_items,
                calls |-> calls, result |-> result, prints |-> prints]
    /\ last_items' = ctx
    /\ i' = Advance(i)
    /\ pc' = "done"
    /\ UNCHANGED <<service, clients, nactions, route, earlier, prev>>

InLoop(svc) == pc = "loop" /\ service = svc /\ i < nactions

OkPrint(act) == <<[kind |-> "success", act |-> act]>>
FailPrint(act) == <<[kind |-> "failure", act |-> act]>>
UnsupportedPrint(act) == <<[kind |-> "unsupported", act |-> act]>>

\* last_items after the else branch of a service: only a print
AfterUnsupportedCleared(items) == <<>>
AfterUnsupported(items) == items

\* last_items after a step that raised.  An assignment to last_items is the
\* last statement of a branch, after its last backend call, so the except
\* clause finds the context as the step found it.
AfterRaiseCleared(items) == <<>>
AfterRaise(items) == items

\* except Exception as e: print(f"... action '{act}' failed: {e}")
\* seen: the label list the step fetched before it raised, if any
CaughtL(act, params, calls, seen) ==
    /\ Finish(act, params, calls, "failed", AfterRaise(last_items), FailPrint(act))
    /\ labels' = seen
    /\ today' = NoDate
    /\ UNCHANGED <<folder_map, folders>>

Caught(act, params, calls) == CaughtL(act, params, calls, NoLabels)

\* the label list a step got when its run calls ended in a raising call: the
\* call that fetches the list is the first of the branch, and returned nothing
\* when it is the one that raised
Seen(calls, seen) == IF Len(calls) > 1 THEN seen ELSE NoLabels

\* a raise ValueError after the backend calls pre, any of which may itself
\* have raised
RaiseL(act, params, pre, seen) ==
    \/ CaughtL(act, params, pre, seen)
    \/ \E r \in Runs(pre) : ~r.ok /\ CaughtL(act, params, r.calls, Seen(r.calls, seen))

Raise(act, params, pre) == RaiseL(act, params, pre, NoLabels)

\* a branch whose backend calls are plan and which, when none raises, leaves
\* the context ctx
PerformL(act, params, plan, ctx, seen) ==
    \E r \in Runs(plan) :
        IF r.ok
          THEN /\ Finish(act, params, r.calls, "ok", ctx, OkPrint(act))
               /\ labels' = seen
               /\ today' = NoDate
               /\ UNCHANGED <<folder_map, folders>>
          ELSE CaughtL(act, params, r.calls, Seen(r.calls, seen))

Perform(act, params, plan, ctx) == PerformL(act, params, plan, ctx, NoLabels)

\* ------------------------------------------------------------------ gmail
\* the values a step can carry, by parameter
IdValues == {Empty, Placeholder, MsgId(1)}
IdsValues == {<<>>, <<MsgId(MaxMsgs)>>}
Counts == 1..MaxMsgs        \* a larger count returns what count = MaxMsgs returns
Queries == {SomeQuery}

\* count = params.get("count") or params.get("maxResults") or params.get("max_results")
\* (0 stands for every falsy result)
Count(params) ==
    IF TruthyInt(params, "count") THEN params["count"]
    ELSE IF TruthyInt(params, "maxResults") THEN params["maxResults"]
    ELSE IF TruthyInt(params, "max_results") THEN params["max_results"]
    ELSE 0

\* query = params.get("query") or params.get("q")   (Empty for every falsy result)
Query(params) ==
    IF Truthy(params, "query") THEN params["query"]
    ELSE IF Truthy(params, "q") THEN params["q"]
    ELSE Empty

\* if "id" in params and not str(params["id"]).startswith("{{")   (read, move)
HasLiteralId(params) == Has(params, "id") /\ ~IsPlaceholder(params["id"])

\* users().messages().list(maxResults, q) and the calls that fetch or change
\* one message
ListCall(q) == Call("messages.list", Empty, q)
GetCall(mid) == Call("messages.get", mid, Empty)
TrashCall(mid) == Call("messages.trash", mid, Empty)
SendCall(to) == Call("messages.send", to, Empty)
MarkReadCall(mid) == Modify(mid, <<>>, <<UNREAD>>)
MarkUnreadCall(mid) == Modify(mid, <<UNREAD>>, <<>>)

\* last_items = detailed   (lines 62, 173)
ExtendContext(old, detailed) == old \o detailed
NewContext(old, detailed) == detailed

\* if act in ("list", "search"): ...
GmailListOrSearch ==
    /\ InLoop("gmail")
    /\ \E act \in {"list", "search"}, pc0 \in Opt("count", Counts), pq \in Opt("query", Queries) :
        LET params == pc0 @@ pq
            n == IF Count(params) # 0 THEN Count(params) ELSE ListDefault
            searching == act = "search" /\ Query(params) # Empty
        IN \E msgs \in InjSeqs(MsgIds, n) :
            \* es.search_emails returns the bare messages; es.list_emails fetches
            \* each message itself before the router fetches it again
            LET plan == IF searching
                          THEN <<Returning(ListCall(Query(params)), msgs)>> \o Each(msgs, GetCall(Empty))
                          ELSE <<Returning(ListCall(Empty), msgs)>>
                                 \o Each(msgs, GetCall(Empty)) \o Each(msgs, GetCall(Empty))
            IN Perform(act, params, plan, NewContext(last_items, Items(msgs)))

\* ----- labels
LabelsListCall == Call("labels.list", Empty, Empty)
LabelRefs == {LabelId(1), work}
NewNames == {Empty, Home}

\* any(l["id"] == lid for l in labels)
IsLabelId(lbls, lid) == \E k \in 1..Len(lbls) : lbls[k].id = lid

\* next((l for l in labels if l["name"].lower() == lid.lower()), None):
\* the id of the first label bearing the name, Empty for None
LabelByExactName(lbls, lid) ==
    LET hits == {k \in 1..Len(lbls) : lbls[k].name = lid}
    IN IF hits = {} THEN Empty
       ELSE lbls[CHOOSE k \in hits : \A j \in hits : k <= j].id
LabelByName(lbls, lid) ==
    LET hits == {k \in 1..Len(lbls) : Lower(lbls[k].name) = Lower(lid)}
    IN IF hits = {} THEN Empty
       ELSE lbls[CHOOSE k \in hits : \A j \in hits : k <= j].id

\* elif act == "list_labels"
GmailListLabels ==
    /\ InLoop("gmail")
    /\ \E lbls \in LabelLists :
         PerformL("list_labels", <<>>, <<LabelsListCall>>, <<>>, lbls)

\* name = params.get("name"); if not name: raise ValueError("Missing label name")
NoNameAbsentOnly(params) == ~Has(params, "name")
NoName(params) == ~Truthy(params, "name")

\* elif act == "create_label"
GmailCreateLabel ==
    /\ InLoop("gmail")
    /\ \E params \in Opt("name", NewNames) :
        IF NoName(params)
          THEN Raise("create_label", params, <<>>)
          ELSE Perform("create_label", params,
                       <<Call("labels.create", Empty, params["name"])>>, <<>>)

\* elif act == "update_label": the branch has no assignment to last_items
GmailUpdateLabel ==
    /\ InLoop("gmail")
    /\ \E pid \in Opt("id", LabelRefs \cup {Empty}), pn \in Opt("name", NewNames), lbls \in LabelLists :
        LET params == pid @@ pn
        IN IF ~Truthy(params, "id") \/ ~Truthy(params, "name")
             THEN Raise("update_label", params, <<>>)
           ELSE IF IsLabelId(lbls, params["id"])
             THEN PerformL("update_label", params,
                           <<LabelsListCall, Call("labels.update", params["id"], params["name"])>>,
                           last_items, lbls)
           ELSE IF LabelByName(lbls, params["id"]) = Empty
             THEN RaiseL("update_label", params, <<LabelsListCall, LabelsListCall>>, lbls)
           ELSE PerformL("update_label", params,
                         <<LabelsListCall, LabelsListCall,
                           Call("labels.update", LabelByName(lbls, params["id"]), params["name"])>>,
                         last_items, lbls)

\* elif act == "delete_label": the id goes to the backend as given
GmailDeleteLabel ==
    /\ InLoop("gmail")
    /\ \E params \in Opt("id", LabelRefs \cup {Empty}) :
        IF ~Truthy(params, "id")
          THEN Raise("delete_label", params, <<>>)
          ELSE Perform("delete_label", params,
                       <<Call("labels.delete", params["id"], Empty)>>, <<>>)

\* elif act == "list_by_label"
ListByLabelCall(lids) == [Call("messages.list", Empty, Empty) EXCEPT !.add = lids]

GmailListByLabel ==
    /\ InLoop("gmail")
    /\ \E pl \in Opt("label_ids", {<<>>, <<LabelId(1)>>}), pn \in Opt("count", Counts) :
        LET params == pl @@ pn
            cnt == IF Has(params, "count") THEN params["count"] ELSE ByLabelDefault
        IN IF ~Truthy(params, "label_ids")
             THEN Raise("list_by_label", params, <<>>)
             ELSE \E msgs \in InjSeqs(MsgIds, cnt) :
                    Perform("list_by_label", params,
                            <<Returning(ListByLabelCall(params["label_ids"]), msgs)>>,
                            NewContext(last_items, Items(msgs)))

\* elif act in ("mark_read", "mark_unread"):
\* mids = params.get("ids") or ([params.get("id")] if "id" in params else get_ids())
MarkTargetsFirst(params, items) ==
    IF Truthy(params, "ids") THEN params["ids"]
    ELSE IF Has(params, "id") THEN <<params["id"]>>
    ELSE Take(get_ids(items), 1)
MarkTargets(params, items) ==
    IF Truthy(params, "ids") THEN params["ids"]
    ELSE IF Has(params, "id") THEN <<params["id"]>>
    ELSE get_ids(items)

GmailMark ==
    /\ InLoop("gmail")
    /\ \E act \in {"mark_read", "mark_unread"}, pid \in Opt("id", IdValues), pids \in Opt("ids", IdsValues) :
        LET params == pid @@ pids
            mids == MarkTargets(params, last_items)
        IN IF mids = <<>> \/ mids[1] = Empty
             THEN Raise(act, params, <<>>)
             ELSE Perform(act, params,
                          IF act = "mark_read" THEN Each(mids, MarkReadCall(Empty))
                                               ELSE Each(mids, MarkUnreadCall(Empty)),
                          <<>>)

\* elif act == "move": the branch has no assignment to last_items
\* if "id" in params and not params["id"].startswith("{{"): mids = [params["id"]]
\* else: mids = get_ids()
MoveTargetsFromContext(params, items) == get_ids(items)
\* last_items after a move that succeeded: print(f"Moved messages ...") ends
\* the branch
AfterMoveCleared(items) == <<>>
AfterMove(items) == items
MoveTargetsFirst(params, items) ==
    IF HasLiteralId(params) THEN <<params["id"]>> ELSE get_ids(Take(items, 1))
MoveTargets(params, items) ==
    IF HasLiteralId(params) THEN <<params["id"]>> ELSE get_ids(items)

GmailMove ==
    /\ InLoop("gmail")
    /\ \E pid \in Opt("id", IdValues), pl \in Opt("label_id", LabelRefs \cup {Empty}), lbls \in LabelLists :
        LET params == pid @@ pl
            mids == MoveTargets(params, last_items)
            lid == IF ~Truthy(params, "label_id") THEN Empty
                   ELSE IF IsLabelId(lbls, params["label_id"]) THEN params["label_id"]
                   ELSE LabelByName(lbls, params["label_id"])
            MoveCall(mid) == Modify(mid, <<lid>>, <<>>)
        IN IF mids = <<>> \/ ~Truthy(params, "label_id")
             THEN Raise("move", params, <<>>)
           ELSE IF lid = Empty
             THEN RaiseL("move", params, <<LabelsListCall>>, lbls)
           ELSE PerformL("move", params, <<LabelsListCall>> \o Each(mids, MoveCall(Empty)),
                         AfterMove(last_items), lbls)

\* elif act in ("delete", "batch_delete"): mids = [item["id"] for item in last_items]
DeleteTargetsParam(params, items) ==
    IF Truthy(params, "ids") THEN params["ids"]
    ELSE IF Has(params, "id") THEN <<params["id"]>>
    ELSE get_ids(items)
DeleteTargets(params, items) == get_ids(items)

GmailDelete ==
    /\ InLoop("gmail")
    /\ \E act \in {"delete", "batch_delete"}, pid \in Opt("id", IdValues), pids \in Opt("ids", IdsValues) :
        LET params == pid @@ pids
            mids == DeleteTargets(params, last_items)
        IN IF mids = <<>>
             THEN Raise(act, params, <<>>)
             ELSE Perform(act, params, Each(mids, TrashCall(Empty)), <<>>)

\* elif act == "send": ...
ToValues == {[list |-> <<>>], [str |-> Empty], [str |-> <<97, 98>>],
             [list |-> <<<<97>>, <<98>>>>]}
Texts == {Empty, <<116>>}

\* to = params.get("to") or []; if isinstance(to, str): to = [to]
SendToEachChar(params) ==
    IF ~Has(params, "to") THEN <<>>
    ELSE IF Has(params["to"], "str")
           THEN [k \in 1..Len(params["to"].str) |-> <<params["to"].str[k]>>]
           ELSE params["to"].list
SendTo(params) ==
    IF ~Has(params, "to") THEN <<>>
    ELSE IF Has(params["to"], "str")
           THEN (IF params["to"].str = Empty THEN <<>> ELSE <<params["to"].str>>)
           ELSE params["to"].list

\* body = params.get("body") or params.get("body_text") or ""
SendBody(params) ==
    IF Truthy(params, "body") THEN params["body"]
    ELSE IF Truthy(params, "body_text") THEN params["body_text"]
    ELSE Empty

GmailSend ==
    /\ InLoop("gmail")
    /\ \E pt \in Opt("to", ToValues), ps \in Opt("subject", Texts), pb \in Opt("body", Texts),
          pbt \in Opt("body_text", {<<117>>}) :
        LET params == pt @@ ps @@ pb @@ pbt
            to == SendTo(params)
        IN IF to = <<>> \/ ~Truthy(params, "subject") \/ SendBody(params) = Empty
             THEN Raise("send", params, <<>>)
             ELSE Perform("send", params, Each(to, SendCall(Empty)), <<>>)

\* mids = [item["id"] for item in last_items[: (count or 1)]]
ReadTargetsAll(items, n) == get_ids(items)
ReadTargets(items, n) == get_ids(Take(items, n))

\* elif act == "read": the three ways to the message ids
GmailRead ==
    /\ InLoop("gmail")
    /\ \E pid \in Opt("id", IdValues), pq \in Opt("query", Queries), pn \in Opt("count", Counts) :
        LET params == pid @@ pq @@ pn
            n == IF Count(params) # 0 THEN Count(params) ELSE ReadDefault
        IN IF HasLiteralId(params)
             THEN Perform("read", params, <<GetCall(params["id"])>>, <<>>)
           ELSE IF Query(params) # Empty
             THEN \E msgs \in InjSeqs(MsgIds, n) :
                    IF msgs = <<>>
                      THEN Raise("read", params, <<ListCall(Query(params))>>)
                      ELSE Perform("read", params,
                                   <<Returning(ListCall(Query(params)), msgs)>>
                                      \o Each(msgs, GetCall(Empty)), <<>>)
           ELSE LET mids == ReadTargets(last_items, n)
                IN IF mids = <<>>
                     THEN Raise("read", params, <<>>)
                     ELSE Perform("read", params, Each(mids, GetCall(Empty)), <<>>)

\* elif act == "attachments_info": raw = params.get("id")
GmailAttachmentsInfo ==
    /\ InLoop("gmail")
    /\ \E params \in Opt("id", IdValues) :
        LET mid == IF Truthy(params, "id") /\ ~IsPlaceholder(params["id"]) THEN params["id"]
                   ELSE IF last_items # <<>> THEN last_items[1].id
                   ELSE Empty
        IN IF mid = Empty
             THEN Raise("attachments_info", params, <<>>)
             ELSE Perform("attachments_info", params, <<GetCall(mid)>>, <<>>)

\* elif act == "batch_mark_read": mids = params.get("ids") or get_ids()
GmailBatchMarkRead ==
    /\ InLoop("gmail")
    /\ \E params \in Opt("ids", IdsValues) :
        LET mids == IF Truthy(params, "ids") THEN params["ids"] ELSE get_ids(last_items)
        IN IF mids = <<>>
             THEN Raise("batch_mark_read", params, <<>>)
             ELSE Perform("batch_mark_read", params, Each(mids, MarkReadCall(Empty)), <<>>)

\* elif act in ("summarize", "summarize_emails_with_ai"): es.list_emails, then
\* the summarization collaborator; last_items = []
AfterSummarizeKept(items) == items
AfterSummarize(items) == <<>>

GmailSummarize ==
    /\ InLoop("gmail")
    /\ \E act \in {"summarize", "summarize_emails_with_ai"}, params \in Opt("count", Counts) :
        LET n == IF Count(params) # 0 THEN Count(params) ELSE SummarizeDefault
        IN \E msgs \in InjSeqs(MsgIds, n) :
             Perform(act, params,
                     <<Returning(ListCall(Empty), msgs)>> \o Each(msgs, GetCall(Empty))
                        \o <<Call("genai.generate", Empty, Empty)>>,
                     AfterSummarize(last_items))

\* else: print(f"Unsupported Gmail action: {act}")
GmailUnsupported ==
    /\ InLoop("gmail")
    /\ \E act \in {"", "archive"} :
        /\ Finish(act, <<>>, <<>>, "unsupported", AfterUnsupported(last_items),
                  UnsupportedPrint(act))
        /\ labels' = NoLabels
        /\ today' = NoDate
        /\ UNCHANGED <<folder_map, folders>>

\* --------------------------------------------------------------- calendar
EvId(k) == <<101, 48 + k>>                        \* "e1", "e2", ...
EvIds == {EvId(k) : k \in 1..MaxMsgs}
Tomorrow == <<116, 111, 109, 111, 114, 114, 111, 119>>          \* "tomorrow"
TomorrowCap == <<84, 111, 109, 111, 114, 114, 111, 119, 32>>    \* "Tomorrow "
Space == 32

\* An ISO date "YYYY-MM-DD" is the sequence <<YYYY, MM, DD>>.
Dates == {<<2024, 5, 1>>, <<2024, 1, 31>>, <<2024, 2, 28>>, <<2023, 2, 28>>, <<2023, 12, 31>>}

IsLeap(y) == (y % 4 = 0 /\ y % 100 # 0) \/ y % 400 = 0
DaysIn(y, m) ==
    IF m = 2 THEN (IF IsLeap(y) THEN 29 ELSE 28)
    ELSE IF m \in {4, 6, 9, 11} THEN 30 ELSE 31

\* (datetime.now(IST) + timedelta(days=1)).date()
SameDay(d) == d
NextDay(d) ==
    IF d[3] < DaysIn(d[1], d[2]) THEN <<d[1], d[2], d[3] + 1>>
    ELSE IF d[2] < 12 THEN <<d[1], d[2] + 1, 1>>
    ELSE <<d[1] + 1, 1, 1>>

\* str.strip(): leading and trailing blanks removed
RECURSIVE Strip(_)
Strip(str) ==
    IF str = <<>> THEN str
    ELSE IF Head(str) = Space THEN Strip(Tail(str))
    ELSE IF str[Len(str)] = Space THEN Strip(SubSeq(str, 1, Len(str) - 1))
    ELSE str

\* A time of day "<h>am" / "<h>pm" is [h |-> 1..12, pm |-> BOOLEAN]; any other
\* text is [h |-> 0, pm |-> FALSE], which strptime rejects.
Times == {[h |-> 12, pm |-> FALSE], [h |-> 9, pm |-> FALSE], [h |-> 12, pm |-> TRUE],
          [h |-> 11, pm |-> TRUE], [h |-> 0, pm |-> FALSE]}

\* datetime.strptime(t.lower(), "%I%p").hour   (-1: ValueError)
ParseHour(t) ==
    IF t.h < 1 \/ t.h > 12 THEN -1
    ELSE (t.h % 12) + (IF t.pm THEN 12 ELSE 0)

\* f"{date_str}T{hour:02d}:00:00+05:30"
Stamp(date, hour) == [date |-> date, hour |-> hour]

StartStamp == Stamp(<<2024, 5, 1>>, 9)
EndStamp == Stamp(<<2024, 5, 1>>, 10)

\* last_items = evs
AfterListAppended(items, evs) == items \o Items(evs)
AfterList(items, evs) == Items(evs)

\* if act == "list": cs.list_events(cal_svc, cnt); last_items = evs
CalendarList ==
    /\ InLoop("calendar")
    /\ \E params \in Opt("count", Counts) :
        LET cnt == IF Has(params, "count") THEN params["count"] ELSE CalListDefault
        IN \E evs \in InjSeqs(EvIds, cnt) :
             Perform("list", params, <<Returning(Call("events.list", Empty, Empty), evs)>>,
                     AfterList(last_items, evs))

\* elif act == "create": start and end of the event
\* (date: <<>> when neither shape is given, hour -1 when the time does not parse)
CreateStartWithoutEnd(params, now) ==
    IF Has(params, "start") THEN params["start"]
    ELSE IF ~Has(params, "date") THEN Stamp(<<>>, 0)
    ELSE Stamp(params["date"], 9)
CreateStart(params, now) ==
    IF Has(params, "start") /\ Has(params, "end") THEN params["start"]
    ELSE IF ~Has(params, "date") THEN Stamp(<<>>, 0)
    ELSE LET date_str == IF Lower(Strip(params["date"])) = Tomorrow
                           THEN NextDay(now) ELSE params["date"]
         IN IF Has(params, "time")
              THEN Stamp(date_str, ParseHour(params["time"]))
              ELSE Stamp(date_str, 9)

CreateEnd(params, now) ==
    IF Has(params, "start") /\ Has(params, "end") THEN params["end"]
    ELSE IF ~Has(params, "date") THEN Stamp(<<>>, 0)
    ELSE LET date_str == IF Lower(Strip(params["date"])) = Tomorrow
                           THEN NextDay(now) ELSE params["date"]
         IN IF Has(params, "time")
              THEN Stamp(date_str, ParseHour(params["time"]) + 1)
              ELSE Stamp(date_str, 10)

InsertCall(start, end) ==
    [op |-> "events.insert", id |-> Empty, arg |-> Empty, add |-> start, remove |-> end,
     ret |-> <<>>]

\* last_items = [{"id": ev.get("id")}]
AfterCreateAppended(items, ev) == items \o Items(<<ev>>)
AfterCreate(items, ev) == Items(<<ev>>)

\* cs.create_event returns None on HttpError, after printing the failure; the
\* router prints its confirmation before ev.get("id") raises on None.
CalendarCreate ==
    /\ InLoop("calendar")
    /\ \E ps \in Opt("start", {StartStamp}), pe \in Opt("end", {EndStamp}),
          pd \in Opt("date", {Tomorrow, TomorrowCap, <<2024, 5, 1>>}),
          pt \in Opt("time", Times) :
      \* the clock is read only to resolve "tomorrow"
      \E now \in (IF /\ ~(Has(ps, "start") /\ Has(pe, "end"))
                       /\ Has(pd, "date") /\ pd["date"] # <<2024, 5, 1>>
                       /\ (Has(pt, "time") => pt["time"] = [h |-> 11, pm |-> TRUE])
                    THEN Dates ELSE {<<2024, 5, 1>>}) :
        LET params == ps @@ pe @@ pd @@ pt
            start == CreateStart(params, now)
            end == CreateEnd(params, now)
            call == InsertCall(start, end)
        IN IF start.date = <<>> \/ start.hour < 0
             THEN Raise("create", params, <<>>)
             ELSE \/ \E ev \in EvIds :
                       /\ Finish("create", params, <<Returning(call, <<ev>>)>>, "ok",
                                 AfterCreate(last_items, ev), OkPrint("create"))
                       /\ labels' = NoLabels
                       /\ today' = now
                       /\ UNCHANGED <<folder_map, folders>>
                  \* HttpError inside cs.create_event
                  \/ /\ Finish("create", params, <<call>>, "failed", last_items,
                               FailPrint("create_event") \o OkPrint("create") \o FailPrint("create"))
                     /\ labels' = NoLabels
                     /\ today' = now
                     /\ UNCHANGED <<folder_map, folders>>
                  \* any other exception of the insert call
                  \/ /\ Finish("create", params, <<call>>, "failed", AfterRaise(last_items),
                               FailPrint("create"))
                     /\ labels' = NoLabels
                     /\ today' = now
                     /\ UNCHANGED <<folder_map, folders>>

\* else: print(f"Unsupported Calendar action: {act}")
CalendarUnsupported ==
    /\ InLoop("calendar")
    /\ \E act \in {"", "delete"} :
        /\ Finish(act, <<>>, <<>>, "unsupported", AfterUnsupported(last_items),
                  UnsupportedPrint(act))
        /\ labels' = NoLabels
        /\ today' = NoDate
        /\ UNCHANGED <<folder_map, folders>>

\* ------------------------------------------------------------------ drive
FileId == <<120, 49>>                             \* "x1"
DashId == <<102, 45, 49>>                         \* "f-1"
Dash == 45
Underscore == 95
Path == <<112>>                                   \* "p"

Contains(str, c) == \E k \in 1..Len(str) : str[k] = c
Exists(fid) == \E k \in 1..MaxFolders : FolderId(k) = fid /\ folders[k] # Empty

\* folder_map.get(name): Empty for None
CachedNever(name) == Empty
Cached(name) == IF name \in DOMAIN folder_map THEN folder_map[name] ELSE Empty

\* what get_folder_id_by_name(name) can return: files[0]["id"] of the folders
\* bearing the name, in the order the server lists them; Empty for None
Lookups(name) ==
    LET hits == {FolderId(k) : k \in {j \in 1..MaxFolders : folders[j] = name}}
    IN IF hits = {} THEN {Empty} ELSE hits

LookupCall(name) == Call("files.list", Empty, name)

\* the end of a pass through the loop body of the drive: no drive branch
\* assigns last_items
DriveDone(act, params, calls, result, fm, fs) ==
    /\ Finish(act, params, calls, result, last_items,
              IF result = "ok" THEN OkPrint(act) ELSE FailPrint(act))
    /\ folder_map' = fm
    /\ folders' = fs
    /\ labels' = NoLabels
    /\ today' = NoDate

\* calls pre were made and the step raised: at one of them, or after them
DriveRaise(act, params, pre) ==
    \/ DriveDone(act, params, pre, "failed", folder_map, folders)
    \/ \E r \in Runs(pre) :
         ~r.ok /\ DriveDone(act, params, r.calls, "failed", folder_map, folders)

\* a branch that touches neither the cache nor the folders
DrivePerform(act, params, plan) ==
    \E r \in Runs(plan) :
        DriveDone(act, params, r.calls, IF r.ok THEN "ok" ELSE "failed", folder_map, folders)

DriveListFiles ==
    /\ InLoop("drive")
    /\ \E pq \in Opt("query", Queries), pn \in Opt("count", Counts) :
        DrivePerform("list_files", pq @@ pn, <<Call("files.list", Empty, Empty)>>)

DriveGetFileInfo ==
    /\ InLoop("drive")
    /\ \E params \in Opt("file_id", {Empty, FileId}) :
        IF ~Truthy(params, "file_id")
          THEN DriveRaise("get_file_info", params, <<>>)
          ELSE DrivePerform("get_file_info", params, <<Call("files.get", params["file_id"], Empty)>>)

\* a file_id holding neither "-" nor "_" is taken for a name and looked up
DriveDownloadFile ==
    /\ InLoop("drive")
    /\ \E params \in Opt("file_id", {Empty, FileId, DashId}) :
        IF ~Truthy(params, "file_id")
          THEN DriveRaise("download_file", params, <<>>)
        ELSE LET raw == params["file_id"]
                 byName == ~Contains(raw, Dash) /\ ~Contains(raw, Underscore)
                 find == Call("files.list", Empty, raw)
             IN IF byName
                  THEN \/ DriveRaise("download_file", params, <<find>>)
                       \/ \E fid \in {FileId, DashId} :
                            DrivePerform("download_file", params,
                                         <<find, Call("local.open", Empty, raw),
                                           Call("files.get_media", fid, Empty)>>)
                  ELSE DrivePerform("download_file", params,
                                    <<Call("local.open", Empty, raw),
                                      Call("files.get_media", raw, Empty)>>)

\* folder_id = folder_map.get(folder_name); if not folder_id: folder_id =
\* get_folder_id_by_name(folder_name); if folder_id: folder_map[folder_name] = folder_id
DriveUploadFile ==
    /\ InLoop("drive")
    /\ \E pf \in Opt("file_path", {Empty, Path}), pd \in Opt("folder_id", {Empty, Docs, FolderId(1)}) :
        LET params == pf @@ pd
            act == "upload_file"
        IN IF ~Truthy(params, "file_path")
             THEN DriveRaise(act, params, <<>>)
           ELSE LET named == Truthy(params, "folder_id")
                    name == IF named THEN params["folder_id"] ELSE Empty
                    look == named /\ Cached(name) = Empty
                    pre == IF look THEN <<LookupCall(name)>> ELSE <<>>
                IN \E found \in (IF look THEN Lookups(name) ELSE {Empty}) :
                    LET folder_id == IF ~named THEN Empty
                                     ELSE IF look THEN found ELSE Cached(name)
                        fm == IF look /\ found # Empty THEN (name :> found) @@ folder_map
                              ELSE folder_map
                        open == Call("local.open", Empty, params["file_path"])
                        create == Call("files.create", folder_id, params["file_path"])
                    IN \* the lookup raised
                       \/ look /\ DriveDone(act, params, pre, "failed", folder_map, folders)
                       \* MediaFileUpload or files().create raised
                       \/ DriveDone(act, params, pre \o <<open>>, "failed", fm, folders)
                       \/ DriveDone(act, params, pre \o <<open, create>>, "failed", fm, folders)
                       \* the drive refuses a parent that does not exist
                       \/ /\ folder_id = Empty \/ Exists(folder_id)
                          /\ DriveDone(act, params, pre \o <<open, create>>, "ok", fm, folders)

\* files().delete(fileId=fid): a folder id deletes the folder
DriveDeleteFile ==
    /\ InLoop("drive")
    /\ \E params \in Opt("file_id", {Empty, FileId, FolderId(1)}) :
        LET act == "delete_file"
        IN IF ~Truthy(params, "file_id")
             THEN DriveRaise(act, params, <<>>)
           ELSE LET fid == params["file_id"]
                    call == Call("files.delete", fid, Empty)
                IN \/ DriveDone(act, params, <<call>>, "failed", folder_map, folders)
                   \/ /\ fid \notin FolderIds \/ Exists(fid)
                      /\ DriveDone(act, params, <<call>>, "ok", folder_map,
                                   [k \in 1..MaxFolders |->
                                      IF FolderId(k) = fid THEN Empty ELSE folders[k]])

\* f = files().create(folder); folder_map[name] = f["id"]
DriveCreateFolder ==
    /\ InLoop("drive")
    /\ \E params \in Opt("name", {Empty, Docs}) :
        LET act == "create_folder"
        IN IF ~Truthy(params, "name")
             THEN DriveRaise(act, params, <<>>)
           ELSE LET name == params["name"]
                    call == Call("files.create", Empty, name)
                IN \/ DriveDone(act, params, <<call>>, "failed", folder_map, folders)
                   \/ \E k \in {j \in 1..MaxFolders : folders[j] = Empty} :
                        DriveDone(act, params, <<Returning(call, <<FolderId(k)>>)>>, "ok",
                                  (name :> FolderId(k)) @@ folder_map,
                                  [folders EXCEPT ![k] = name])

\* folder_id = folder_map.get(target) or get_folder_id_by_name(target)
DriveMoveFile ==
    /\ InLoop("drive")
    /\ \E pf \in Opt("file_id", {Empty, FileId}), pd \in Opt("folder_id", {Empty, Docs, FolderId(1)}) :
        LET params == pf @@ pd
            act == "move_file"
        IN IF ~Truthy(params, "file_id") \/ ~Truthy(params, "folder_id")
             THEN DriveRaise(act, params, <<>>)
           ELSE LET target == params["folder_id"]
                    fid == params["file_id"]
                    look == Cached(target) = Empty
                    pre == IF look THEN <<LookupCall(target)>> ELSE <<>>
                IN \E found \in (IF look THEN Lookups(target) ELSE {Empty}) :
                    LET folder_id == IF look THEN found ELSE Cached(target)
                        get == Call("files.get", fid, Empty)
                        update == Call("files.update", fid, folder_id)
                    IN IF folder_id = Empty
                         THEN DriveRaise(act, params, pre)
                         ELSE \/ DriveRaise(act, params, pre \o <<get, update>>)
                              \/ /\ Exists(folder_id)
                                 /\ DriveDone(act, params, pre \o <<get, update>>, "ok",
                                              folder_map, folders)

DriveShareFile ==
    /\ InLoop("drive")
    /\ \E pf \in Opt("file_id", {Empty, FileId}), pe \in Opt("email", {<<97>>}) :
        LET params == pf @@ pe
        IN IF ~Truthy(params, "file_id") \/ ~Truthy(params, "email")
             THEN DriveRaise("share_file", params, <<>>)
             ELSE DrivePerform("share_file", params,
                               <<Call("permissions.create", params["file_id"], params["email"])>>)

\* else: print(f"Unsupported Drive action: {action}")
DriveUnsupported ==
    /\ InLoop("drive")
    /\ \E act \in {"", "rename"} :
        /\ Finish(act, <<>>, <<>>, "unsupported", AfterUnsupported(last_items),
                  UnsupportedPrint(act))
        /\ labels' = NoLabels
        /\ today' = NoDate
        /\ UNCHANGED <<folder_map, folders>>

Next ==
    \/ RouteIntent
    \/ NextItem
    \/ GmailListOrSearch
    \/ GmailSend
    \/ GmailRead
    \/ GmailAttachmentsInfo
    \/ GmailListLabels
    \/ GmailCreateLabel
    \/ GmailUpdateLabel
    \/ GmailDeleteLabel
    \/ GmailListByLabel
    \/ GmailMark
    \/ GmailMove
    \/ GmailDelete
    \/ GmailBatchMarkRead
    \/ GmailSummarize
    \/ GmailUnsupported
    \/ CalendarList
    \/ CalendarCreate
    \/ CalendarUnsupported
    \/ DriveListFiles
    \/ DriveGetFileInfo
    \/ DriveDownloadFile
    \/ DriveUploadFile
    \/ DriveDeleteFile
    \/ DriveCreateFolder
    \/ DriveMoveFile
    \/ DriveShareFile
    \/ DriveUnsupported

Spec == Init /\ [][Next]_vars

\* The same calls with batches one step longer: room for a step that follows
\* a failed step that itself follows a list.
NextLong ==
    \/ RouteLongIntent
    \/ NextItem
    \/ GmailListOrSearch
    \/ GmailSend
    \/ GmailRead
    \/ GmailAttachmentsInfo
    \/ GmailListLabels
    \/ GmailCreateLabel
    \/ GmailUpdateLabel
    \/ GmailDeleteLabel
    \/ GmailListByLabel
    \/ GmailMark
    \/ GmailMove
    \/ GmailDelete
    \/ GmailBatchMarkRead
    \/ GmailSummarize
    \/ GmailUnsupported
    \/ CalendarList
    \/ CalendarCreate
    \/ CalendarUnsupported
    \/ DriveListFiles
    \/ DriveGetFileInfo
    \/ DriveDownloadFile
    \/ DriveUploadFile
    \/ DriveDeleteFile
    \/ DriveCreateFolder
    \/ DriveMoveFile
    \/ DriveShareFile
    \/ DriveUnsupported

LongSpec == Init /\ [][NextLong]_vars

\* A call that has entered a loop runs on: the interpreter executes the next
\* statement, and every backend call returns or raises.  Nothing obliges the
\* caller to call route_intent again.
InCall == pc # "idle" /\ Next
FairSpec == Spec /\ WF_vars(InCall)

\* ------------------------------------------------------------- properties
\* What the properties read off the record of the step that just ended.
MessageOps == {"messages.get", "messages.trash", "messages.modify"}
IsMessageCall(c) == c.op \in MessageOps

\* the message ids the step's fetch, trash and modify calls were sent, in order
Targets(calls) ==
    LET sel == SelectSeq(calls, IsMessageCall)
    IN [k \in 1..Len(sel) |-> sel[k].id]

IsPrefix(s, t) == Len(s) <= Len(t) /\ s = SubSeq(t, 1, Len(s))

GmailStep(acts) == pc = "done" /\ service = "gmail" /\ step.act \in acts
Succeeded == step.result = "ok"
Reported(act) == \E k \in DOMAIN step.prints : step.prints[k] = [kind |-> "failure", act |-> act]

NeedsId == {"read", "attachments_info", "mark_read", "mark_unread", "move"}
Deletes == {"delete", "batch_delete"}
Marks == {"mark_read", "mark_unread"}
CarriesLiteralId(params) ==
    Has(params, "id") /\ params["id"] # Empty /\ ~IsPlaceholder(params["id"])

\* C1: an error raised by a step is caught and reported under the step's
\* action name, and the batch is not cut short: the steps are attempted one by
\* one in order, and route_intent returns from a loop only once every step of
\* the batch has been attempted, whatever the result of each.
C1_ErrorsDoNotAbort ==
    /\ (pc = "done" /\ step.result = "failed") => Reported(step.act)
    /\ pc = "done" => (step.idx = i /\ i <= nactions)
    /\ pc = "loop" => i < nactions
    /\ (pc = "idle" /\ route = "entered") => i = nactions

\* a drive step that succeeded right after a step of the same batch raised
C1_Witness ==
    pc = "done" /\ service = "drive" /\ prev.failed /\ step.idx > 1 /\ step.result = "ok"

\* C2: a call whose service is missing, not routable, or routable without its
\* client reports the error and returns at once: no step is executed (so no
\* backend call is made), and the folder cache is what it was.
C2_RoutingErrorRunsNothing ==
    /\ [](route \in {"uninit", "ERROR"} => (pc = "idle" /\ step = NoStep /\ i = 0))
    /\ [][(pc = "idle" /\ ~(service' \in Routable /\ service' \in clients'))
            => /\ route' \in {"uninit", "ERROR"}
               /\ (route' = "ERROR" <=> service' \notin Routable)
               /\ pc' = "idle"
               /\ step' = NoStep
               /\ i' = 0
               /\ folder_map' = folder_map]_vars

\* a non-empty batch for the drive arrived without a drive client, with
\* folders already in the cache
C2_Witness ==
    /\ route = "uninit" /\ service = "drive" /\ "drive" \notin clients
    /\ nactions > 0 /\ folder_map # <<>> /\ pc = "idle"

\* C3: whatever earlier calls left behind, the first step of a call finds the
\* context empty; a first step of the mail service that can only fall back to
\* the context therefore targets no message at all and fails.
FallsBack ==
    /\ step.act \in NeedsId \cup Deletes \cup {"batch_mark_read"}
    /\ ~Has(step.params, "id") /\ ~Has(step.params, "ids")
    /\ Query(step.params) = Empty
C3_ContextStartsEmpty ==
    /\ (pc = "loop" /\ i = 0) => last_items = <<>>
    /\ (pc = "done" /\ step.idx = 1) =>
          /\ step.before = <<>>
          /\ (service = "gmail" /\ FallsBack) =>
                (Targets(step.calls) = <<>> /\ step.result = "failed")

\* a delete that opens a call made after a call that ended with items in its
\* context
C3_Witness ==
    /\ GmailStep(Deletes) /\ step.idx = 1 /\ earlier
    /\ ~Has(step.params, "id") /\ ~Has(step.params, "ids")
    /\ step.result = "failed"

\* C4: a list, search or list_by_label step that succeeds leaves as context
\* one item per message the server returned, in the order returned, and nothing
\* else; the delete step that follows it trashes those ids in that order (all
\* of them when it succeeds) and no other.
C4_ListReplacesContext ==
    /\ (GmailStep(Producing) /\ Succeeded) => last_items = Items(step.calls[1].ret)
    /\ (GmailStep(Deletes) /\ prev.fresh) =>
          /\ IsPrefix(Targets(step.calls), prev.ids)
          /\ Succeeded => Targets(step.calls) = prev.ids

\* a list step that found a context and replaced it by a different result of
\* more than one message
C4_Witness ==
    /\ GmailStep(Producing) /\ Succeeded
    /\ step.before # <<>> /\ Len(last_items) > 1 /\ last_items # step.before

\* C5: a delete, batch_delete, mark_read, mark_unread, read, send,
\* create_label, update_label or delete_label step that succeeds leaves the
\* context empty for the next step.
C5_ConsumingStepsClear ==
    (GmailStep(Deletes \cup Marks \cup {"read", "send", "create_label", "update_label",
                                        "delete_label"}) /\ Succeeded)
        => last_items = <<>>

\* the calls of the step fetch or change no message but mid, and search nothing
OnlyTargets(mid) ==
    \A k \in DOMAIN step.calls :
        /\ step.calls[k].op # "messages.list"
        /\ IsMessageCall(step.calls[k]) => step.calls[k].id = mid

\* C6 as stated: a read, attachments_info, mark_read, mark_unread or move step
\* with a literal id sends its calls to that id only.
C6_LiteralIdOnly ==
    (GmailStep(NeedsId) /\ CarriesLiteralId(step.params))
        => OnlyTargets(step.params["id"])

\* C6: a read, attachments_info, mark_read, mark_unread or move step with a
\* literal id and no non-empty ids list sends its calls to that id only,
\* whatever the context holds and whatever query it carries, and exactly one
\* such call when it succeeds.
C6_LiteralIdWithoutIdsList ==
    (GmailStep(NeedsId) /\ CarriesLiteralId(step.params) /\ ~Truthy(step.params, "ids"))
        => /\ OnlyTargets(step.params["id"])
           /\ Succeeded => Targets(step.calls) = <<step.params["id"]>>

\* a move with a literal id that succeeded while the context held other
\* messages
C6_Witness ==
    /\ GmailStep({"move"}) /\ Succeeded /\ CarriesLiteralId(step.params)
    /\ step.before # <<>> /\ get_ids(step.before) # <<step.params["id"]>>

\* C7: an id that begins with "{{" is never sent to the backend by a read,
\* attachments_info, mark_read, mark_unread or move step.
C7_PlaceholderNeverSent ==
    (GmailStep(NeedsId) /\ Has(step.params, "id") /\ IsPlaceholder(step.params["id"]))
        => \A k \in DOMAIN step.calls : step.calls[k].id # step.params["id"]

C10_NothingToTargetFails ==
    (/\ GmailStep(NeedsId \cup {"batch_mark_read"})
     /\ step.before = <<>>
     /\ Has(step.params, "id") => IsPlaceholder(step.params["id"])
     /\ ~Truthy(step.params, "ids")
     /\ \A k \in DOMAIN step.calls : step.calls[k].ret = <<>>)
        => /\ step.result = "failed"
           /\ Reported(step.act)
           /\ Targets(step.calls) = <<>>
           /\ last_items = <<>>

\* the labels of the list the step fetched whose name is name, whatever the case
Matching(name) == {k \in 1..Len(labels) : Lower(labels[k].name) = Lower(name)}
ModifyCalls == SelectSeq(step.calls, IsMessageCall)

\* C11: a move step whose label_id is the id of no label of the fetched list
\* takes it for a name, compared without regard to case: when a label bears
\* the name, the step sends modify calls, each adding the id of one and the
\* same such label and removing nothing; when none does, the step fails under
\* its action name and sends no modify call.
C11_MoveResolvesLabelName ==
    (/\ GmailStep({"move"})
     /\ Truthy(step.params, "label_id")
     /\ ~IsLabelId(labels, step.params["label_id"]))
        => IF Matching(step.params["label_id"]) = {}
             THEN step.result = "failed" /\ Reported("move") /\ ModifyCalls = <<>>
             ELSE /\ ModifyCalls # <<>>
                  /\ \E k \in Matching(step.params["label_id"]) :
                        \A j \in DOMAIN ModifyCalls :
                            /\ ModifyCalls[j].add = <<labels[k].id>>
                            /\ ModifyCalls[j].remove = <<>>

\* a move to "work" that succeeded on a mailbox whose label "Work" has
\* another spelling of the name
C11_Witness ==
    /\ GmailStep({"move"}) /\ Succeeded
    /\ step.params["label_id"] = work
    /\ labels # <<>> /\ labels[1].name = Work

\* C12: a move step leaves the context as it found it, whether it succeeds or
\* fails, at whichever call.
C12_MoveKeepsContext ==
    GmailStep({"move"}) => last_items = step.before

\* a move that succeeded on the messages of a context of more than one
C12_Witness ==
    /\ GmailStep({"move"}) /\ Succeeded /\ ~Has(step.params, "id")
    /\ Len(step.before) > 1 /\ Len(ModifyCalls) = Len(step.before)

Summaries == {"summarize", "summarize_emails_with_ai"}

\* C13 as stated: the context after a summarize step is the context before it.
C13_SummarizeKeepsContext ==
    GmailStep(Summaries) => last_items = step.before

\* C13: a summarize step that succeeds leaves the context empty, whatever it
\* held (a delete after it finds nothing to trash); one that fails leaves the
\* context as it was.
C13_SummarizeClearsContext ==
    GmailStep(Summaries) =>
        /\ step.result \in {"ok", "failed"}
        /\ Succeeded => last_items = <<>>
        /\ step.result = "failed" => last_items = step.before

\* a summarize that succeeded right after a list step had filled the context
C13_Witness ==
    GmailStep(Summaries) /\ Succeeded /\ prev.fresh /\ step.before # <<>>

\* What the properties read off a drive step.
DriveStep(acts) == pc = "done" /\ service = "drive" /\ step.act \in acts
Resolving == {"upload_file", "move_file"}
NamesFolder(st) == st.act \in Resolving /\ Truthy(st.params, "folder_id")
IsLookup(c) == c.op = "files.list"
IsPlacing(c) == c.op \in {"files.create", "files.update"}
\* the folder a files().create or files().update call puts the file in
Parent(c) == IF c.op = "files.create" THEN c.id ELSE c.arg
LookupCalls(calls) == SelectSeq(calls, IsLookup)
Placings(calls) == SelectSeq(calls, IsPlacing)

\* C14: an upload_file or move_file step that names a folder the cache maps
\* when the step starts, in whichever call the entry was made, sends no
\* folder lookup, places the file (if it gets that far) in the mapped id, and
\* leaves the cache as it is.
C14_CachedFolderIsUsed ==
    [][(/\ pc = "loop" /\ pc' = "done" /\ service = "drive"
        /\ NamesFolder(step')
        /\ step'.params["folder_id"] \in DOMAIN folder_map)
          => /\ LookupCalls(step'.calls) = <<>>
             /\ \A k \in DOMAIN Placings(step'.calls) :
                   Parent(Placings(step'.calls)[k]) = folder_map[step'.params["folder_id"]]
             /\ step'.result = "ok" => Placings(step'.calls) # <<>>
             /\ folder_map' = folder_map]_vars

\* a move_file that opened a call, found the folder in the cache an earlier
\* call had filled, and moved the file without a lookup
C14_Witness ==
    /\ DriveStep({"move_file"}) /\ Succeeded /\ step.idx = 1
    /\ step.params["folder_id"] = Docs /\ Docs \in DOMAIN folder_map
    /\ LookupCalls(step.calls) = <<>>
    /\ Parent(step.calls[2]) = folder_map[Docs]

\* C15: an upload_file or move_file step that looked a folder name up and got
\* an id (the id it then placed the file in), and a create_folder step that
\* succeeded, leave the cache mapping the name to that id.
C15_ResolutionIsCached ==
    /\ (/\ DriveStep(Resolving) /\ NamesFolder(step)
         /\ LookupCalls(step.calls) # <<>>
         /\ Placings(step.calls) # <<>>
         /\ Parent(Placings(step.calls)[1]) # Empty)
          => /\ step.params["folder_id"] \in DOMAIN folder_map
             /\ folder_map[step.params["folder_id"]] = Parent(Placings(step.calls)[1])
    /\ (DriveStep({"create_folder"}) /\ Succeeded)
          => /\ step.params["name"] \in DOMAIN folder_map
             /\ folder_map[step.params["name"]] = step.calls[1].ret[1]

\* C16: an upload_file or move_file step that comes right after a delete_file
\* step deleted a folder places no file in the deleted folder's id, cached or
\* not.
C16_DeletedFolderNotResolved ==
    (DriveStep(Resolving) /\ NamesFolder(step) /\ prev.deleted \in FolderIds)
        => \A k \in DOMAIN Placings(step.calls) :
              Parent(Placings(step.calls)[k]) # prev.deleted

\* the folder of id fid is on the drive under the name name
Bears(fid, name) == \E k \in 1..MaxFolders : FolderId(k) = fid /\ folders[k] = name

\* C17: an upload_file or move_file step that took the folder's id from the
\* cache (it names a folder and sent no lookup) and went on to place the file
\* fails, and says so, when the folder of that id no longer bears the name.
C17_StaleFolderFails ==
    (/\ DriveStep(Resolving) /\ NamesFolder(step)
     /\ LookupCalls(step.calls) = <<>>
     /\ Placings(step.calls) # <<>>
     /\ ~Bears(Parent(Placings(step.calls)[1]), step.params["folder_id"]))
        => step.result = "failed" /\ Reported(step.act)

\* C18: an upload_file or move_file step that had to look its folder name up
\* (the cache did not map it) on a drive where no folder bears the name fails
\* under its action name and sends no files().create or files().update call.
C18_UnknownFolderFails ==
    (/\ DriveStep(Resolving) /\ NamesFolder(step)
     /\ LookupCalls(step.calls) # <<>>
     /\ \A k \in 1..MaxFolders : folders[k] # step.params["folder_id"])
        => /\ step.result = "failed"
           /\ Reported(step.act)
           /\ Placings(step.calls) = <<>>

\* C19: within a call the steps run one at a time in list order, each once:
\* a pass through the loop body is the step numbered one more than the steps
\* done before, with all its backend calls in the one record; between two
\* passes nothing happens but taking the next item; a call never returns with
\* a step left; and a call that entered a loop comes to return with every
\* step attempted.
C19_StepsInOrderThenReturn ==
    /\ [][(pc = "loop" /\ pc' # "loop")
            => (pc' = "done" /\ i' = i + 1 /\ step'.idx = i' /\ i' <= nactions
                /\ nactions' = nactions)]_vars
    /\ [][pc = "done"
            => (pc' \in {"loop", "idle"} /\ i' = i /\ step' = NoStep
                /\ nactions' = nactions /\ (pc' = "idle" <=> i = nactions))]_vars
    /\ [](pc = "loop" => <>(pc = "idle" /\ route = "entered" /\ i = nactions))

\* the last step of a batch of more than one has been attempted, after a
\* step that raised
C19_Witness ==
    pc = "done" /\ step.idx = nactions /\ nactions > 1 /\ prev.failed

\* the day after each date of Dates, by the calendar
DayAfter ==
    (<<2024, 5, 1>> :> <<2024, 5, 2>>) @@ (<<2024, 1, 31>> :> <<2024, 2, 1>>)
      @@ (<<2024, 2, 28>> :> <<2024, 2, 29>>) @@ (<<2023, 2, 28>> :> <<2023, 3, 1>>)
      @@ (<<2023, 12, 31>> :> <<2024, 1, 1>>)

\* C20: a calendar create step with date "tomorrow", no time and not both of
\* start and end, run on the date D of UTC+5:30, sends one insert call, whose
\* start is 09:00 and whose end is 10:00 of the day after D, at +05:30.
C20_TomorrowAtNine ==
    (/\ pc = "done" /\ service = "calendar" /\ step.act = "create"
     /\ Has(step.params, "date") /\ step.params["date"] = Tomorrow
     /\ ~Has(step.params, "time")
     /\ ~(Has(step.params, "start") /\ Has(step.params, "end")))
        => /\ today \in Dates
           /\ Len(step.calls) = 1
           /\ [step.calls[1] EXCEPT !.ret = <<>>]
                 = InsertCall(Stamp(DayAfter[today], 9), Stamp(DayAfter[today], 10))

\* the event created on the last day of a year for "tomorrow"
C20_Witness ==
    /\ pc = "done" /\ service = "calendar" /\ step.act = "create" /\ Succeeded
    /\ step.params = ("date" :> Tomorrow)
    /\ today = <<2023, 12, 31>>
    /\ step.calls[1].add = Stamp(<<2024, 1, 1>>, 9)

\* ------------------------------------------------------------------- C21
CalendarStep(acts) == pc = "done" /\ service = "calendar" /\ step.act \in acts
Inserted == Len(step.calls) = 1 /\ step.calls[1].op = "events.insert"

\* C21: after a calendar create step whose insert call succeeded the context
\* is exactly one item, holding the id of the event the call returned, and
\* nothing of the context the step found; when the insert call failed the
\* context is the one the step found.
C21_CreateSetsContext ==
    (CalendarStep({"create"}) /\ Inserted)
        => IF Succeeded
             THEN /\ Len(step.calls[1].ret) = 1
                  /\ last_items = <<[id |-> step.calls[1].ret[1]]>>
             ELSE last_items = step.before

\* a create that succeeded on a context of listed events
C21_Witness ==
    /\ CalendarStep({"create"}) /\ Inserted /\ Succeeded
    /\ Len(step.before) = MaxMsgs
    /\ Len(last_items) = 1
    /\ last_items[1].id = step.calls[1].ret[1]

\* ------------------------------------------------------------------- C22
\* C22: a create_label step whose name is empty or absent fails, reported as
\* a failure of create_label, without any backend call, so that no label is
\* created.
C22_CreateLabelNeedsName ==
    (GmailStep({"create_label"}) /\ ~Truthy(step.params, "name"))
        => /\ step.result = "failed"
           /\ step.calls = <<>>
           /\ Reported("create_label")

\* create_label with name = ""
C22_Witness ==
    /\ GmailStep({"create_label"})
    /\ Has(step.params, "name") /\ step.params["name"] = Empty
    /\ step.result = "failed" /\ step.calls = <<>>

\* ------------------------------------------------------------------- C23
LabelEdits == {"update_label", "delete_label"}
IsLabelEdit(c) == c.op \in {"labels.update", "labels.delete"}
EditCalls == SelectSeq(step.calls, IsLabelEdit)
\* the step carries what its branch requires, and its id is no label's id
NamesLabel ==
    /\ Truthy(step.params, "id")
    /\ step.act = "update_label" => Truthy(step.params, "name")
    /\ step.params["id"] \notin LabelIds

\* C23: an update_label or delete_label step whose id is not the id of any
\* label sends its update or delete call, if any, with the id of a label of
\* the mailbox whose name equals the given one case-insensitively, and sends
\* none and fails when no label bears the name.
C23_LabelNameResolved ==
    (GmailStep(LabelEdits) /\ NamesLabel)
        => /\ \A k \in DOMAIN EditCalls :
                 \E j \in Matching(step.params["id"]) : labels[j].id = EditCalls[k].id
           /\ Matching(step.params["id"]) = {} => step.result = "failed"

\* ------------------------------------------------------------------- C24
\* the step names, under key, the id of a label the mailbox holds
GivesLabelId(key) == Truthy(step.params, key) /\ IsLabelId(labels, step.params[key])
\* the step names, as folder_id, the id of a folder the drive holds
GivesFolderId ==
    /\ Truthy(step.params, "file_id") /\ Truthy(step.params, "folder_id")
    /\ step.params["folder_id"] \in FolderIds /\ Exists(step.params["folder_id"])

\* C24: an identifier that is already the id of a label of the mailbox
\* (update_label, move) or of a folder of the drive (move_file) is used as it
\* is: it is not looked up as a name, the backend calls of the step that take
\* a label or a folder receive it, and a step that succeeds has made them.
C24_KnownIdUnchanged ==
    /\ (GmailStep({"update_label"}) /\ GivesLabelId("id") /\ Truthy(step.params, "name"))
          => /\ \A k \in DOMAIN EditCalls : EditCalls[k].id = step.params["id"]
             /\ Succeeded => EditCalls # <<>>
    /\ (GmailStep({"move"}) /\ GivesLabelId("label_id"))
          => /\ \A k \in DOMAIN ModifyCalls : ModifyCalls[k].add = <<step.params["label_id"]>>
             /\ Succeeded => ModifyCalls # <<>>
    /\ (DriveStep({"move_file"}) /\ GivesFolderId)
          => /\ LookupCalls(step.calls) = <<>>
             /\ \A k \in DOMAIN Placings(step.calls) :
                   Parent(Placings(step.calls)[k]) = step.params["folder_id"]
             /\ Succeeded => Placings(step.calls) # <<>>

\* ------------------------------------------------------------------- C25
\* the step fell back to a context that held items, and took want from it:
\* its message calls went to the ids of want in order, all of them when the
\* step succeeded
TookFromContext(want) ==
    /\ IsPrefix(Targets(step.calls), get_ids(want))
    /\ Succeeded => Targets(step.calls) = get_ids(want)

\* C25 as claimed: on fallback attachments_info and move target the first
\* item of the context only, and delete, batch_delete and batch_mark_read
\* target every item of the context.
C25_FallbackOneOrAll ==
    (GmailStep({"attachments_info", "move"} \cup Deletes \cup {"batch_mark_read"})
       /\ FallsBack /\ step.before # <<>>)
        => IF step.act \in {"attachments_info", "move"}
             THEN TookFromContext(Take(step.before, 1))
             ELSE TookFromContext(step.before)

\* C25: on fallback attachments_info targets the first item of the context
\* only; move, delete, batch_delete and batch_mark_read target every item of
\* the context, in context order.
C25_FallbackMoveTakesAll ==
    (GmailStep({"attachments_info", "move"} \cup Deletes \cup {"batch_mark_read"})
       /\ FallsBack /\ step.before # <<>>)
        => IF step.act = "attachments_info"
             THEN TookFromContext(Take(step.before, 1))
             ELSE TookFromContext(step.before)

\* a move without id that moved every item of a context of several
C25_Witness ==
    /\ GmailStep({"move"}) /\ FallsBack /\ Succeeded
    /\ Len(step.before) = MaxMsgs
    /\ Targets(step.calls) = get_ids(step.before)

\* ------------------------------------------------------------------- C26
\* a read step that can only fall back to the context
ReadsContext ==
    GmailStep({"read"}) /\ ~HasLiteralId(step.params) /\ Query(step.params) = Empty
\* the ids of the first min(count, |context|) items of the context the step
\* found, count being 1 when the step carries none
FirstOfContext ==
    LET count == IF Has(step.params, "count") THEN step.params["count"] ELSE 1
        m == IF count < Len(step.before) THEN count ELSE Len(step.before)
    IN [k \in 1..m |-> step.before[k].id]

IsSend(c) == c.op = "messages.send"
\* the recipients the step was given, a single string being a list of one
Recipients ==
    IF ~Has(step.params, "to") THEN <<>>
    ELSE IF "str" \in DOMAIN step.params["to"]
           THEN (IF step.params["to"].str = <<>> THEN <<>> ELSE <<step.params["to"].str>>)
           ELSE step.params["to"].list
\* the step lacks a recipient, a subject or a body (given as body or body_text)
LacksSendField ==
    \/ Recipients = <<>>
    \/ ~Truthy(step.params, "subject")
    \/ ~Truthy(step.params, "body") /\ ~Truthy(step.params, "body_text")

\* C27: a send step whose to, subject or body is missing or empty fails
\* without a send call; any other send step sends one message per recipient
\* in the order given, a single string being one recipient, makes no other
\* call, and leaves the context empty once all are sent.
C27_SendNeedsFieldsThenSendsEach ==
    GmailStep({"send"})
        => IF LacksSendField
             THEN step.result = "failed" /\ step.calls = <<>>
             ELSE /\ \A k \in DOMAIN step.calls : IsSend(step.calls[k])
                  /\ IsPrefix([k \in DOMAIN step.calls |-> step.calls[k].id], Recipients)
                  /\ Succeeded => Len(step.calls) = Len(Recipients) /\ last_items = <<>>

\* a send to a single string of two characters, after a list filled the context
C27_Witness ==
    /\ GmailStep({"send"}) /\ Succeeded
    /\ Has(step.params, "to") /\ step.params["to"] = [str |-> <<97, 98>>]
    /\ Len(step.calls) = 1 /\ step.calls[1].id = <<97, 98>>
    /\ step.before # <<>> /\ last_items = <<>>

\* ------------------------------------------------------------------- C28
\* a create step that gives a date and a time of day from 12am to 11pm, and
\* not both of start and end
GivesDateAndTime ==
    /\ CalendarStep({"create"})
    /\ ~(Has(step.params, "start") /\ Has(step.params, "end"))
    /\ Has(step.params, "date") /\ step.params["date"] = <<2024, 5, 1>>
    /\ Has(step.params, "time") /\ step.params["time"].h \in 1..12
\* the hour of the day, 0 to 23, of a 12-hour time
HourOfDay(t) == (IF t.h = 12 THEN 0 ELSE t.h) + (IF t.pm THEN 12 ELSE 0)
\* one hour after the stamp s, whose date the table DayAfter knows
HourLater(s) ==
    IF s.hour < 23 THEN [date |-> s.date, hour |-> s.hour + 1]
    ELSE [date |-> DayAfter[s.date], hour |-> 0]

\* C28: a calendar create step with a date and a 12-hour time from 12am to
\* 11pm sends one insert call whose start is that hour of the given date and
\* whose end is a timestamp with an hour from 00 to 23, one hour after the
\* start.
C28_OneHourSlot ==
    GivesDateAndTime
        => /\ Inserted
           /\ step.calls[1].add = [date |-> step.params["date"],
                                    hour |-> HourOfDay(step.params["time"])]
           /\ step.calls[1].remove.hour \in 0..23
           /\ step.calls[1].remove = HourLater(step.calls[1].add)

\* ------------------------------------------------------------------- C29
BothEnds == Has(step.params, "start") /\ Has(step.params, "end")

\* C29: a calendar create step that gives neither both of start and end nor
\* a date fails, reported as a failure of create, sends no insert call and
\* leaves the context as it found it; a step that gives start, end and a
\* date sends its insert call with the start and end given, whatever the date
\* and the time say.
C29_CreateNeedsAShape ==
    /\ (CalendarStep({"create"}) /\ ~BothEnds /\ ~Has(step.params, "date"))
          => /\ step.result = "failed" /\ Reported("create")
             /\ step.calls = <<>>
             /\ last_items = step.before
    /\ (CalendarStep({"create"}) /\ BothEnds /\ Has(step.params, "date"))
          => /\ Inserted
             /\ step.calls[1].add = step.params["start"]
             /\ step.calls[1].remove = step.params["end"]

\* a create that gave a start but no end and no date, on a context of events
C29_Witness ==
    /\ CalendarStep({"create"})
    /\ Has(step.params, "start") /\ ~Has(step.params, "end") /\ ~Has(step.params, "date")
    /\ step.result = "failed" /\ step.calls = <<>>
    /\ step.before # <<>> /\ last_items = step.before

\* ------------------------------------------------------------------- C30
\* the step just executed is a producing step that succeeded: a mail list,
\* search or list_by_label, or a calendar list or create
Produced ==
    /\ pc = "done" /\ Succeeded
    /\ \/ service = "gmail" /\ step.act \in {"list", "search", "list_by_label"}
       \/ service = "calendar" /\ step.act \in {"list", "create"}
\* the items the first backend call of the step returned
Returned == [k \in 1..Len(step.calls[1].ret) |-> [id |-> step.calls[1].ret[k]]]

\* C30: the context of a dispatch call is at every point empty or exactly the
\* item list of the most recent producing step of the call that succeeded.
\* Step by step: a call starts with an empty context; a producing step that
\* succeeds leaves exactly the items it was returned, none of the context it
\* found; any other pass through the loop leaves the context as it was or
\* empty; nothing else changes the context.
C30_ContextIsLastProduced ==
    [][/\ pc = "idle" => last_items' = <<>>
       /\ pc = "loop" => IF Produced' THEN last_items' = Returned'
                          ELSE last_items' = <<>> \/ last_items' = last_items
       /\ pc = "done" => last_items' = last_items]_vars

\* a calendar list that succeeded on the context an earlier list had left,
\* and left the events it was returned itself
C30_Witness ==
    /\ Produced /\ service = "calendar" /\ step.act = "list"
    /\ prev.fresh /\ step.before = Items(prev.ids)
    /\ Len(step.before) = MaxMsgs
    /\ last_items = Returned /\ last_items # step.before

\* ------------------------------------------------------------------- C31
\* the step before this one was a mail step that raised on a context that
\* held items
AfterFailure == prev.act # ""

\* C31: a step that ends in an error leaves the context exactly as it found
\* it, whether or not calls of the step had already acted on some of its
\* targets; a delete, batch_delete, mark_read, mark_unread or batch_mark_read
\* step that follows it and falls back to the context finds the context the
\* failed step found and targets all of it, in order.
C31_FailedStepKeepsContext ==
    /\ (pc = "done" /\ step.result = "failed") => last_items = step.before
    /\ (GmailStep(Deletes \cup Marks \cup {"batch_mark_read"}) /\ FallsBack /\ AfterFailure)
          => /\ step.before = prev.before
             /\ TookFromContext(prev.before)

\* a delete that trashed every item of the context, after a delete that had
\* trashed the first and raised at the last
C31_Witness ==
    /\ GmailStep({"delete"}) /\ Succeeded
    /\ prev.act = "delete"
    /\ Len(prev.before) = MaxMsgs /\ prev.tried = get_ids(prev.before)
    /\ Targets(step.calls) = get_ids(prev.before)
    /\ Targets(step.calls)[1] = prev.tried[1]

\* ------------------------------------------------------------------- C32
\* the kinds of the outcome messages the step printed
Outcomes == {step.prints[k].kind : k \in DOMAIN step.prints}

\* C32: a step reports one outcome: its messages are all of one kind, and a
\* success confirmation is among them only if every backend call of the step
\* succeeded; in particular a calendar create whose insert call failed prints
\* no confirmation.
C32_OneOutcomePerStep ==
    pc = "done"
        => /\ Cardinality(Outcomes) = 1
           /\ "success" \in Outcomes => Succeeded

\* ------------------------------------------------------------------- C33
\* the action names each service has a branch for
Supported ==
    [gmail |-> {"list", "search", "send", "read", "attachments_info", "list_labels",
                "create_label", "update_label", "delete_label", "list_by_label",
                "mark_read", "mark_unread", "move", "delete", "batch_delete",
                "batch_mark_read", "summarize", "summarize_emails_with_ai"},
     calendar |-> {"list", "create"},
     drive |-> {"list_files", "get_file_info", "download_file", "upload_file",
                "delete_file", "create_folder", "move_file", "share_file"}]
\* the step just executed bears an action name its service has no branch for
NotSupported == pc = "done" /\ step.act \notin Supported[service]

\* C33: a step whose action name the routed service does not support sends
\* no backend call, leaves the context and the folder cache as they were, is
\* reported to the user as unsupported under its name, and is followed by
\* the next step of the batch when there is one.
C33_UnsupportedStepIsSkipped ==
    [][/\ NotSupported'
          => /\ pc = "loop"
             /\ step'.calls = <<>>
             /\ last_items' = last_items /\ folder_map' = folder_map
             /\ step'.prints = <<[kind |-> "unsupported", act |-> step'.act]>>
       /\ (NotSupported /\ step.idx < nactions)
          => pc' = "loop" /\ i' = step.idx /\ last_items' = last_items
                /\ folder_map' = folder_map]_vars

\* an unsupported mail step between a list and a further step, with folders
\* in the cache
C33_Witness ==
    /\ NotSupported /\ service = "gmail" /\ step.act = "archive"
    /\ step.before # <<>> /\ last_items = step.before
    /\ folder_map # <<>>
    /\ step.idx < nactions

====
